---- MODULE Spec2Model ----
(***************************************************************************)
(* Model of xmrig/lib-builder/script/toolchains_path.py: the NDK toolchain *)
(* locator (ToolchainPathManager and main).                                *)
(*                                                                         *)
(* A path is the sequence of its components; os.path.join appends          *)
(* components.  The filesystem is the set of the paths that exist.  The    *)
(* cache file is a record: whether it exists, whether it can be opened for *)
(* reading / writing, and what json.load makes of its bytes: "object" (a   *)
(* JSON object whose values are objects, with its entries in order),       *)
(* "array" (a JSON array of strings, its elements in items), "string" (a   *)
(* JSON string, cut into the pieces of items), "scalar" (a JSON number,    *)
(* true, false or null), "garbage" (text that is not JSON), "empty" (no    *)
(* bytes, not JSON either), "binary" (bytes that are not UTF-8).  An entry *)
(* without 'timestamp' is an entry with timestamp 0, which is how every    *)
(* read of it (.get('timestamp', 0)) takes it.  The content of a           *)
(* source.properties file is the sequence of its lines, a line being the   *)
(* sequence of the parts that '=' separates.                               *)
(***************************************************************************)
EXTENDS Integers, Sequences, FiniteSets, TLC

VARIABLES
    now,         \* time.time(), whole seconds
    fs,          \* the set of existing paths
    source_properties,  \* the content of <ndk>/source.properties, per NDK
    tempdirs,    \* the candidate temporary directories, in the order they are
                 \* tried: for each, whether a file can be created in it
    cache_file,  \* the file <tempdir>/ta_toolchain_cache.json
    call,        \* the call made by the last step (NoCall: the step was no call)
    seen,        \* history: an earlier successful resolution with the cache enabled,
                 \* kept while the cache file stays as that resolution left it
    calls,       \* number of resolutions made (counted by SpecEvict only)
    procs        \* concurrent invocations (used by SpecConc only)

vars == <<now, fs, source_properties, tempdirs, cache_file, call, seen, calls, procs>>

-----------------------------------------------------------------------------
(* Program constants *)

\* "time.time() - cache_time < 86400"
CacheTtl == 86400

\* "if len(cache_data) > 10" and "sorted_entries[-10:]"
MaxEntries == 10

(* Bounds of the model *)

\* the clock starts here (seconds since the epoch)
StartTime == 200000

\* the clock runs over StartTime + k*CacheTtl + {-1,0,1}, k in 0..MaxDays
MaxDays == 1

\* number of concurrent invocations in SpecConc
NumProcs == 2

\* number of resolutions in a run of SpecEvict
MaxCalls == 3

-----------------------------------------------------------------------------
(* Paths and the filesystem *)

\* Python's None (for a path: no path)
None == <<>>

\* the empty string as a path
EmptyPath == <<"">>

\* the truth value of a path ("if ndk_dir", "if cached_path"): None and '' are
\* false
Truthy(p) == p # None /\ p # EmptyPath

\* os.path.join(p, 'a/b') with the relative part given by its components
Join(p, parts) == IF p = EmptyPath THEN parts ELSE p \o parts

IsPrefix(p, q) ==
    /\ Len(p) <= Len(q)
    /\ SubSeq(q, 1, Len(p)) = p

\* q lies strictly below p
IsStrictDescendant(q, p) == IsPrefix(p, q) /\ Len(q) > Len(p)

\* every ancestor of p and p itself
Ancestors(p) == { SubSeq(p, 1, n) : n \in 1..Len(p) }

\* existing paths that are regular files, not directories
IsRegularFile(p) ==
    \/ p = <<"plainfile">>
    \/ Len(p) > 1 /\ p[Len(p)] \in {"clang", "clang++", "clang.exe", "clang++.exe",
                                     "source.properties"}

\* os.path.exists
Exists(files, p) == p \in files

\* os.path.isdir
IsDir(files, p) == p \in files /\ ~IsRegularFile(p)

WindowsFamily == {"windows-x86_64", "windows"}

PrebuiltRel == <<"toolchains", "llvm", "prebuilt">>

ToolchainDir(ndk_dir, host_tag) == Join(ndk_dir, PrebuiltRel \o <<host_tag>>)

\* the compiler file names an NDK ships for a host tag
ShippedTools(host_tag) ==
    IF host_tag \in WindowsFamily
    THEN {<<"bin", "clang.exe">>, <<"bin", "clang++.exe">>}
    ELSE {<<"bin", "clang">>, <<"bin", "clang++">>}

\* a complete NDK installation at ndk_dir with toolchains for the given tags
NdkTree(ndk_dir, tags, modern_windows) ==
    UNION { Ancestors(Join(ndk_dir, rel)) :
            rel \in {PrebuiltRel, <<"build", "cmake">>, <<"sources">>,
                     <<"source.properties">>} }
    \cup UNION { UNION { Ancestors(Join(ToolchainDir(ndk_dir, t), tool)) :
                          tool \in ShippedTools(t) } : t \in tags }
    \cup (IF modern_windows
          THEN Ancestors(Join(ndk_dir, <<"prebuilt", "windows-x86_64">>))
          ELSE {})

\* rm -rf p
RemoveTree(files, p) == { q \in files : ~IsPrefix(p, q) }

-----------------------------------------------------------------------------
(* The host: platform.system(), platform.machine(), sys.platform *)

\* str.lower() on the names the model uses
Lower(s) ==
    CASE s = "Linux"   -> "linux"
      [] s = "Darwin"  -> "darwin"
      [] s = "Windows" -> "windows"
      [] s = "FreeBSD" -> "freebsd"
      [] s = "CYGWIN_NT-10.0-19045" -> "cygwin_nt-10.0-19045"
      [] s = "MSYS_NT-10.0-19045"   -> "msys_nt-10.0-19045"
      [] s = "AMD64"   -> "amd64"
      [] s = "ARM64"   -> "arm64"
      [] OTHER         -> s

\* sys.platform.startswith('win'), over the values of sys.platform the model uses
\* ("linux", "darwin", "win32", "cygwin", "freebsd14")
StartsWithWin(platform) == platform = "win32"

\* sys.platform of the interpreter that reports platform.system() = system
\* (platform.system() is the sysname of uname: on Cygwin and MSYS2 it is
\* CYGWIN_NT-<version> and MSYS_NT-<version>, and sys.platform is 'cygwin')
PlatformOf(system) ==
    CASE system = "Linux"                -> "linux"
      [] system = "Darwin"               -> "darwin"
      [] system = "Windows"              -> "win32"
      [] system = "CYGWIN_NT-10.0-19045" -> "cygwin"
      [] system = "MSYS_NT-10.0-19045"   -> "cygwin"
      [] OTHER                           -> "freebsd14"

Systems == {"Linux", "Darwin", "Windows", "CYGWIN_NT-10.0-19045",
            "MSYS_NT-10.0-19045", "FreeBSD"}

Machines == {"x86_64", "AMD64", "amd64", "aarch64", "arm64", "ARM64", "riscv64"}

Host(system, machine) ==
    [system |-> system, machine |-> machine, platform |-> PlatformOf(system)]

AllHosts == { Host(s, m) : s \in Systems, m \in Machines }

\* the hosts the resolution specifications draw from
CoreHosts == { Host("Linux", "x86_64"), Host("Linux", "aarch64"),
               Host("Darwin", "arm64"), Host("Darwin", "x86_64"),
               Host("Windows", "AMD64"), Host("CYGWIN_NT-10.0-19045", "x86_64"),
               Host("FreeBSD", "amd64") }

-----------------------------------------------------------------------------
(* ToolchainPathManager *)

\* get_host_tag(ndk_dir): None (no tag) is the empty string
NoTag == ""

get_host_tag(files, host, ndk_dir) ==
    LET system  == Lower(host.system)
        machine == Lower(host.machine)
    IN  IF system = "linux"
        THEN IF machine \in {"x86_64", "amd64"} THEN "linux-x86_64"
             ELSE IF machine \in {"aarch64", "arm64"} THEN "linux-aarch64"
             ELSE NoTag
        ELSE IF system = "darwin"
        THEN IF machine \in {"x86_64", "amd64"} THEN "darwin-x86_64"
             ELSE IF machine \in {"arm64", "aarch64"} THEN "darwin-arm64"
             ELSE NoTag
        ELSE IF system \in {"windows", "win32", "cygwin"}
        THEN IF /\ Truthy(ndk_dir)
                /\ ~Exists(files, Join(ndk_dir, <<"prebuilt", "windows-x86_64">>))
             THEN "windows"
             ELSE "windows-x86_64"
        ELSE NoTag

RequiredPaths == {PrebuiltRel, <<"build", "cmake">>, <<"sources">>}

\* faulty variant: 'sources' is not checked
validate_ndk_directory_lax(files, ndk_dir) ==
    /\ IsDir(files, ndk_dir)
    /\ \A req_path \in RequiredPaths \ {<<"sources">>} :
           Exists(files, Join(ndk_dir, req_path))

validate_ndk_directory(files, ndk_dir) ==
    /\ IsDir(files, ndk_dir)
    /\ \A req_path \in RequiredPaths : Exists(files, Join(ndk_dir, req_path))

\* a path as the string Python holds: its components joined by "/"
RECURSIVE PathStr(_)
PathStr(p) ==
    IF Len(p) = 0 THEN ""
    ELSE IF Len(p) = 1 THEN p[1]
    ELSE PathStr(SubSeq(p, 1, Len(p) - 1)) \o "/" \o p[Len(p)]

\* cache_key = f"{ndk_dir}:{host_tag}"
CacheKey(ndk_dir, host_tag) == PathStr(ndk_dir) \o ":" \o host_tag

\* position of the key in the JSON object (0: not in it)
KeyIndex(entries, key) ==
    IF \E i \in 1..Len(entries) : entries[i].key = key
    THEN CHOOSE i \in 1..Len(entries) : entries[i].key = key
    ELSE 0

\* "if os.path.exists(self.cache_file): with open(...) as f: json.load(f)":
\* the exception it raises, or "none"
LoadError(cf) ==
    IF ~cf.exists THEN "none"
    ELSE IF ~cf.readable THEN "OSError"
    ELSE IF cf.kind = "binary" THEN "UnicodeDecodeError"
    ELSE IF cf.kind \in {"garbage", "empty"} THEN "JSONDecodeError"
    ELSE "none"

\* the pieces of a string put together again
RECURSIVE Concat(_)
Concat(pieces) ==
    IF Len(pieces) = 0 THEN "" ELSE pieces[1] \o Concat(Tail(pieces))

\* "cache_key in cache_data" on a JSON array (an element equals the key) and on
\* a JSON string (the key is a part of it)
HoldsKey(cf, key) ==
    IF cf.kind = "array" THEN \E i \in 1..Len(cf.items) : cf.items[i] = key
    ELSE IF cf.kind = "string"
    THEN \E i \in 1..Len(cf.items) : \E j \in i..Len(cf.items) :
             Concat(SubSeq(cf.items, i, j)) = key
    ELSE FALSE

\* the lookup on what json.load returned: "cache_key in cache_data" and, when
\* it is true, "cache_data[cache_key]"
KeyLookup(cf, key) ==
    IF ~cf.exists THEN [error |-> "none", index |-> 0]
    ELSE IF cf.kind = "scalar" THEN [error |-> "TypeError", index |-> 0]
    ELSE IF cf.kind \in {"array", "string"}
    THEN [error |-> IF HoldsKey(cf, key) THEN "TypeError" ELSE "none", index |-> 0]
    ELSE [error |-> "none", index |-> KeyIndex(cf.entries, key)]

\* "except (json.JSONDecodeError, KeyError, OSError)"
ReadHandlerCatches(error) == error \in {"JSONDecodeError", "KeyError", "OSError"}

\* faulty variant: the comparison is inverted
EntryFreshInverted(entry, t) == t - entry.timestamp > CacheTtl

\* faulty variant: an entry aged exactly 86400 s still counts
EntryFreshInclusive(entry, t) == t - entry.timestamp <= CacheTtl

\* the validity test of a cache entry: "time.time() - cache_time < 86400"
EntryFresh(entry, t) == t - entry.timestamp < CacheTtl

\* result: raised (an exception leaves the method) and the returned path
get_cached_toolchain_path(files, cf, cache_enabled, ndk_dir, host_tag, t) ==
    LET miss       == [raised |-> FALSE, path |-> None]
        raise      == [raised |-> TRUE, path |-> None]
        thrown(e)  == IF ReadHandlerCatches(e) THEN miss ELSE raise
        lookup     == KeyLookup(cf, CacheKey(ndk_dir, host_tag))
    IN  IF ~cache_enabled THEN miss
        ELSE IF ~cf.exists THEN miss
        ELSE IF LoadError(cf) # "none" THEN thrown(LoadError(cf))
        ELSE IF lookup.error # "none" THEN thrown(lookup.error)
        ELSE IF lookup.index = 0 THEN miss
        ELSE LET cached_entry == cf.entries[lookup.index]
             IN  IF ~EntryFresh(cached_entry, t) THEN miss
                 ELSE IF cached_entry.path = None THEN thrown("TypeError")
                 ELSE IF Exists(files, cached_entry.path)
                      THEN [raised |-> FALSE, path |-> cached_entry.path]
                      ELSE miss

\* str.strip() on the parts the model uses
Strip(s) ==
    CASE s = " 27.0.12077973\n" -> "27.0.12077973"
      [] s = " 26.1.10909125\n" -> "26.1.10909125"
      [] s = " Android NDK\n"   -> "Android NDK"
      [] OTHER                  -> s

\* line.startswith('Pkg.Revision'), by the first part of the line
StartsWithPkgRevision(line) ==
    line[1] \in {"Pkg.Revision ", "Pkg.Revision\n", "Pkg.Revision", "Pkg.RevisionTag "}

\* the lines of source.properties as an NDK ships it
ShippedProperties ==
    [readable |-> TRUE,
     lines |-> << <<"Pkg.Desc ", " Android NDK\n">>,
                  <<"Pkg.Revision ", " 27.0.12077973\n">> >>]

\* result: the version of the first line that starts with Pkg.Revision;
\* "unknown" when there is no file, no such line, or an exception (the file
\* cannot be read, the line has no '=')
detect_ndk_version(files, props, ndk_dir) ==
    LET source_props == Join(ndk_dir, <<"source.properties">>)
        content      == props[ndk_dir]
        found        == { i \in 1..Len(content.lines) :
                          StartsWithPkgRevision(content.lines[i]) }
        first        == CHOOSE i \in found : \A k \in found : i <= k
    IN  IF ~Exists(files, source_props) THEN "unknown"
        ELSE IF ~content.readable THEN "unknown"
        ELSE IF found = {} THEN "unknown"
        ELSE IF Len(content.lines[first]) < 2 THEN "unknown"
        ELSE Strip(content.lines[first][2])

\* sorted(..., key=timestamp): a stable sort, ascending
RECURSIVE InsertSorted(_, _)
InsertSorted(sorted, e) ==
    IF Len(sorted) = 0 THEN <<e>>
    ELSE IF sorted[Len(sorted)].timestamp <= e.timestamp THEN Append(sorted, e)
    ELSE Append(InsertSorted(SubSeq(sorted, 1, Len(sorted) - 1), e),
                sorted[Len(sorted)])

RECURSIVE SortedByTimestamp(_)
SortedByTimestamp(entries) ==
    IF Len(entries) = 0 THEN <<>>
    ELSE InsertSorted(SortedByTimestamp(SubSeq(entries, 1, Len(entries) - 1)),
                      entries[Len(entries)])

\* faulty variant: the oldest entries are dropped by position, without sorting
TrimEntriesUnsorted(entries) ==
    IF Len(entries) > MaxEntries
    THEN SubSeq(entries, Len(entries) - MaxEntries + 1, Len(entries))
    ELSE entries

\* "if len(cache_data) > 10: ... dict(sorted_entries[-10:])"
TrimEntries(entries) ==
    IF Len(entries) > MaxEntries
    THEN LET sorted_entries == SortedByTimestamp(entries)
         IN  SubSeq(sorted_entries, Len(sorted_entries) - MaxEntries + 1,
                    Len(sorted_entries))
    ELSE entries

\* cache_data[cache_key] = {...}: an existing key keeps its place
SetEntry(entries, e) ==
    LET i == KeyIndex(entries, e.key)
    IN  IF i = 0 THEN Append(entries, e) ELSE [entries EXCEPT ![i] = e]

NewEntry(files, props, ndk_dir, host_tag, toolchain_path, t) ==
    [key         |-> CacheKey(ndk_dir, host_tag),
     path        |-> toolchain_path,
     timestamp   |-> t,
     ndk_version |-> detect_ndk_version(files, props, ndk_dir),
     host_tag    |-> host_tag]

\* "except (OSError, json.JSONEncodeError)": the json module has no
\* JSONEncodeError, so evaluating the clause raises AttributeError whatever the
\* exception was: no exception of the try block is handled.
WriteHandlerCatches(error) == FALSE

\* the try block of cache_toolchain_path: read, insert, trim, rewrite.
\* result: raised, and the cache file afterwards
StoreEntry(files, props, cf, ndk_dir, host_tag, toolchain_path, t) ==
    LET done(f)  == [raised |-> FALSE, file |-> f]
        fail(e)  == [raised |-> ~WriteHandlerCatches(e), file |-> cf]
        old      == IF cf.exists THEN cf.entries ELSE <<>>
        data     == TrimEntries(SetEntry(old,
                        NewEntry(files, props, ndk_dir, host_tag,
                                 toolchain_path, t)))
    IN  IF LoadError(cf) # "none" THEN fail(LoadError(cf))
        ELSE IF cf.exists /\ cf.kind # "object" THEN fail("TypeError")
        ELSE IF ~cf.writable THEN fail("OSError")
        ELSE done([cf EXCEPT !.exists = TRUE, !.readable = TRUE,
                             !.kind = "object", !.entries = data,
                             !.items = <<>>])

\* faulty variant: the cache_enabled test is missing
cache_toolchain_path_unguarded(files, props, cf, cache_enabled, ndk_dir, host_tag, toolchain_path, t) ==
    StoreEntry(files, props, cf, ndk_dir, host_tag, toolchain_path, t)

cache_toolchain_path(files, props, cf, cache_enabled, ndk_dir, host_tag, toolchain_path, t) ==
    IF ~cache_enabled
    THEN [raised |-> FALSE, file |-> cf]
    ELSE StoreEntry(files, props, cf, ndk_dir, host_tag, toolchain_path, t)

\* required_tools, chosen by sys.platform
RequiredTools(platform) ==
    IF StartsWithWin(platform)
    THEN {<<"bin", "clang.exe">>, <<"bin", "clang++.exe">>}
    ELSE {<<"bin", "clang">>, <<"bin", "clang++">>}

\* result: raised, the returned path (None: failure), the cache file afterwards,
\* whether the cache answered, and the tool files whose presence was required
find_toolchain_path(files, props, cf, cache_enabled, host, ndk_dir, host_tag, t) ==
    LET cached         == get_cached_toolchain_path(files, cf, cache_enabled,
                                                    ndk_dir, host_tag, t)
        toolchain_path == ToolchainDir(ndk_dir, host_tag)
        required_tools == RequiredTools(host.platform)
        put            == cache_toolchain_path(files, props, cf, cache_enabled,
                                               ndk_dir, host_tag, toolchain_path, t)
        res(r, p, f, h, q, w) ==
            [raised |-> r, path |-> p, file |-> f, hit |-> h, required |-> q,
             put |-> w]
    IN  IF cached.raised THEN res(TRUE, None, cf, FALSE, {}, FALSE)
        ELSE IF Truthy(cached.path)
             THEN res(FALSE, cached.path, cf, TRUE, {}, FALSE)
        ELSE IF ~Exists(files, toolchain_path)
             THEN res(FALSE, None, cf, FALSE, {}, FALSE)
        ELSE IF \E tool \in required_tools : ~Exists(files, Join(toolchain_path, tool))
             THEN res(FALSE, None, cf, FALSE, required_tools, FALSE)
        ELSE IF put.raised THEN res(TRUE, None, put.file, FALSE, required_tools, TRUE)
        ELSE res(FALSE, toolchain_path, put.file, FALSE, required_tools, TRUE)

\* result: find_toolchain_path's, with the validation verdict and the host tag
get_toolchain_path(files, props, cf, cache_enabled, host, ndk_dir, t) ==
    LET valid    == validate_ndk_directory(files, ndk_dir)
        host_tag == get_host_tag(files, host, ndk_dir)
        found    == find_toolchain_path(files, props, cf, cache_enabled, host,
                                        ndk_dir, host_tag, t)
        stop(v, tag) ==
            [raised |-> FALSE, path |-> None, file |-> cf, hit |-> FALSE,
             required |-> {}, put |-> FALSE, valid |-> v, host_tag |-> tag,
             looked_up |-> FALSE]
    IN  IF ~valid THEN stop(FALSE, NoTag)
        ELSE IF host_tag = NoTag THEN stop(TRUE, NoTag)
        ELSE [raised |-> found.raised, path |-> found.path, file |-> found.file,
              hit |-> found.hit, required |-> found.required, put |-> found.put,
              valid |-> TRUE, host_tag |-> host_tag, looked_up |-> TRUE]

\* tempfile.gettempdir(), called by __init__ for the place of the cache file:
\* the first candidate directory in which a file can be created (0: there is
\* none, FileNotFoundError)
gettempdir(dirs) ==
    IF \E i \in 1..Len(dirs) : dirs[i]
    THEN CHOOSE i \in 1..Len(dirs) : dirs[i] /\ \A k \in 1..(i - 1) : ~dirs[k]
    ELSE 0

\* main(): the exit status and what is printed on standard output (None:
\* nothing).  An exception that leaves main ends the interpreter with status 1;
\* the first that can is the constructor's, before anything is validated.
main(files, props, dirs, cf, cache_enabled, host, ndk_dir, t) ==
    LET r == IF gettempdir(dirs) = 0
             THEN [raised |-> TRUE, path |-> None, file |-> cf, hit |-> FALSE,
                   required |-> {}, put |-> FALSE, valid |-> FALSE,
                   host_tag |-> NoTag, looked_up |-> FALSE]
             ELSE get_toolchain_path(files, props, cf, cache_enabled, host,
                                     ndk_dir, t)
    IN  [result    |-> r,
         stdout    |-> IF ~r.raised /\ Truthy(r.path) THEN r.path ELSE None,
         exit_code |-> IF ~r.raised /\ Truthy(r.path) THEN 0 ELSE 1]

-----------------------------------------------------------------------------
(* The state machine: sequential invocations of the script *)

\* the instants the clock visits
Instants ==
    { t \in { StartTime + k * CacheTtl + e : k \in 0..MaxDays, e \in {-1, 0, 1} } :
      t >= StartTime }

NoFile ==
    [exists |-> FALSE, readable |-> TRUE, writable |-> TRUE, kind |-> "object",
     entries |-> <<>>, items |-> <<>>]

\* a readable, writable file of the given kind
FileOf(kind, items) == [NoFile EXCEPT !.exists = TRUE, !.kind = kind, !.items = items]

\* an entry as another writer may have left it: no 'path' field
PathlessEntry(ndk_dir, host_tag, t) ==
    [key |-> CacheKey(ndk_dir, host_tag), path |-> None, timestamp |-> t,
     ndk_version |-> "unknown", host_tag |-> host_tag]

\* what the invocations may find at the cache file's place, in the directory
\* gettempdir() chose: nothing, a dangling symbolic link (os.path.exists is
\* false and the file cannot be created), or a file that is unreadable,
\* read-only, not JSON (truncated, empty, not UTF-8), JSON of another shape
\* (with or without the key in it), or a JSON object (empty, or with an entry
\* that has no path or the path '')
InitialCacheFiles ==
    { [NoFile EXCEPT !.writable = w] : w \in BOOLEAN }
    \cup { FileOf(k, <<>>) : k \in {"object", "garbage", "scalar", "binary"} }
    \cup { FileOf("array", <<"x">>),
           FileOf("array", <<CacheKey(<<"ndkA">>, "linux-x86_64")>>),
           FileOf("string", <<"xx ", CacheKey(<<"ndkA">>, "linux-x86_64")>>) }
    \cup { [FileOf("garbage", <<>>) EXCEPT !.readable = FALSE],
           [FileOf("object", <<>>) EXCEPT !.writable = FALSE] }
    \cup { [FileOf("object", <<>>) EXCEPT
               !.entries = <<PathlessEntry(<<"ndkA">>, "linux-x86_64", t)>>] :
           t \in {0, StartTime} }
    \cup { [FileOf("object", <<>>) EXCEPT
               !.entries = <<[PathlessEntry(<<"ndkA">>, "linux-x86_64", StartTime)
                              EXCEPT !.path = EmptyPath]>>] }

\* a source.properties without a Pkg.Revision line
BareProperties ==
    [readable |-> TRUE, lines |-> << <<"Pkg.Desc ", " Android NDK\n">> >>]

\* what source.properties may hold: the shipped lines, another revision after
\* a line that starts like it, no Pkg.Revision line, a Pkg.Revision line
\* without '=', and a file that cannot be read
PropertiesContents ==
    { ShippedProperties, BareProperties,
      [readable |-> TRUE,
       lines |-> << <<"Pkg.Desc ", " Android NDK\n">>,
                    <<"Pkg.RevisionTag ", " 26.1.10909125\n">>,
                    <<"Pkg.Revision ", " 27.0.12077973\n">> >>],
      [readable |-> TRUE,
       lines |-> << <<"Pkg.Revision\n">>, <<"Pkg.Revision ", " 26.1.10909125\n">> >>],
      [readable |-> FALSE, lines |-> <<>>] }

NoCall ==
    [op |-> "none", ndk_dir |-> None, host |-> Host("Linux", "x86_64"),
     cache_enabled |-> FALSE, valid |-> FALSE, host_tag |-> NoTag,
     looked_up |-> FALSE, hit |-> FALSE, required |-> {}, put |-> FALSE,
     raised |-> FALSE, path |-> None, stdout |-> None, exit_code |-> 0]

NoSeen ==
    [active |-> FALSE, ndk_dir |-> None, host_tag |-> NoTag, at |-> 0,
     stamp |-> 0, path |-> None]

IdleProcs ==
    [p \in 1..NumProcs |->
        [pc |-> "idle", host |-> Host("Linux", "x86_64"), data |-> <<>>,
         stdout |-> None]]

\* the record of one run of main()
MainCall(m, ndk_dir, host, cache_enabled) ==
    [op |-> "main", ndk_dir |-> ndk_dir, host |-> host,
     cache_enabled |-> cache_enabled, valid |-> m.result.valid,
     host_tag |-> m.result.host_tag, looked_up |-> m.result.looked_up,
     hit |-> m.result.hit, required |-> m.result.required, put |-> m.result.put,
     raised |-> m.result.raised, path |-> m.result.path, stdout |-> m.stdout,
     exit_code |-> m.exit_code]

\* the candidate directories: all usable, the first one (TMPDIR) not, none
UsableTempdirs == <<TRUE, TRUE>>
TempdirStates == { UsableTempdirs, <<FALSE, TRUE>>, <<FALSE, FALSE>> }

\* the cache files that can be in the directory gettempdir() chose (none when
\* there is no such directory)
CacheFilesIn(dirs, files) == IF gettempdir(dirs) = 0 THEN {NoFile} ELSE files

\* the record of ToolchainPathManager() raising: no method was called
ConstructorRaised == [NoCall EXCEPT !.op = "__init__", !.raised = TRUE]

\* the record of one direct call of find_toolchain_path (no process: stdout and
\* exit_code stay as in NoCall)
FindCall(r, ndk_dir, host, host_tag, cache_enabled) ==
    [NoCall EXCEPT !.op = "find", !.ndk_dir = ndk_dir, !.host = host,
                   !.cache_enabled = cache_enabled, !.host_tag = host_tag,
                   !.looked_up = TRUE, !.hit = r.hit, !.required = r.required,
                   !.put = r.put, !.raised = r.raised, !.path = r.path]

\* the state after the call c that left the cache file as file (track: keep the
\* history variable)
Called(c, file, track) ==
    LET kept == IF seen.active /\ file = cache_file THEN seen ELSE NoSeen
        key  == CacheKey(c.ndk_dir, c.host_tag)
        this == [active |-> TRUE, ndk_dir |-> c.ndk_dir, host_tag |-> c.host_tag,
                 at |-> now,
                 stamp |-> IF c.hit
                           THEN cache_file.entries[
                                    KeyIndex(cache_file.entries, key)].timestamp
                           ELSE now,
                 path |-> c.path]
    IN  /\ cache_file' = file
        /\ call' = c
        /\ seen' \in {kept} \cup
                     (IF track /\ c.cache_enabled /\ ~c.raised /\ Truthy(c.path)
                      THEN {this} ELSE {})
        /\ UNCHANGED <<now, fs, source_properties, tempdirs, procs>>

\* python toolchains_path.py --ndk <ndk_dir> [--no-cache] on the given host
\* (flags: the settings of the cache switch; counted: the run is bounded by
\* MaxCalls)
Resolve(ndk_dirs, hosts, flags, track, counted) ==
    \E ndk_dir \in ndk_dirs, host \in hosts, cache_enabled \in flags :
      \E m \in {main(fs, source_properties, tempdirs, cache_file, cache_enabled,
                     host, ndk_dir, now)} :
        /\ Called(MainCall(m, ndk_dir, host, cache_enabled), m.result.file, track)
        /\ counted => calls < MaxCalls
        /\ calls' = IF counted THEN calls + 1 ELSE calls

\* a direct call ToolchainPathManager().find_toolchain_path(ndk_dir, host_tag)
Find(ndk_dirs, hosts, host_tags, flags, track) ==
    \E ndk_dir \in ndk_dirs, host \in hosts, host_tag \in host_tags,
       cache_enabled \in flags :
      \E r \in {find_toolchain_path(fs, source_properties, cache_file,
                                    cache_enabled, host, ndk_dir, host_tag, now)} :
        /\ IF gettempdir(tempdirs) = 0
           THEN Called(ConstructorRaised, cache_file, track)
           ELSE Called(FindCall(r, ndk_dir, host, host_tag, cache_enabled),
                       r.file, track)
        /\ UNCHANGED calls

\* a direct call of get_host_tag, with or without ndk_dir
HostTagQuery(ndk_dirs, hosts) ==
    \E ndk_dir \in ndk_dirs \cup {None, EmptyPath}, host \in hosts :
        /\ call' = IF gettempdir(tempdirs) = 0
                   THEN ConstructorRaised
                   ELSE [NoCall EXCEPT !.op = "get_host_tag", !.ndk_dir = ndk_dir,
                                       !.host = host,
                                       !.host_tag = get_host_tag(fs, host, ndk_dir)]
        /\ UNCHANGED <<now, fs, source_properties, tempdirs, cache_file, seen,
                       calls, procs>>

\* time passes
Tick ==
    /\ \E t \in Instants : t > now /\ now' = t
    /\ call' = NoCall
    /\ UNCHANGED <<fs, source_properties, tempdirs, cache_file, seen, calls, procs>>

\* somebody removes a file or a directory tree
Remove(paths) ==
    /\ \E p \in paths \cap fs : fs' = RemoveTree(fs, p)
    /\ call' = NoCall
    /\ UNCHANGED <<now, source_properties, tempdirs, cache_file, seen, calls, procs>>

NdkA == <<"ndkA">>

(* Spec: resolutions against one installed NDK, whose toolchain files may be
   removed, with a cache file in any initial condition and a running clock *)

MainHosts == { Host("Linux", "x86_64"), Host("Windows", "AMD64"),
               Host("CYGWIN_NT-10.0-19045", "x86_64") }

MainTags == {"linux-x86_64", "windows-x86_64"}

MainRemovable ==
    { ToolchainDir(NdkA, "linux-x86_64"),
      Join(ToolchainDir(NdkA, "linux-x86_64"), <<"bin", "clang">>),
      Join(ToolchainDir(NdkA, "linux-x86_64"), <<"bin", "clang++">>) }

Init ==
    /\ now = StartTime
    /\ fs = NdkTree(NdkA, MainTags, TRUE)
    /\ source_properties \in [{NdkA} -> {ShippedProperties, BareProperties}]
    /\ tempdirs \in TempdirStates
    /\ cache_file \in CacheFilesIn(tempdirs, InitialCacheFiles)
    /\ call = NoCall
    /\ seen = NoSeen
    /\ calls = 0
    /\ procs = IdleProcs

Next ==
    \/ Resolve({NdkA}, MainHosts, BOOLEAN, TRUE, FALSE)
    \/ Tick
    \/ Remove(MainRemovable)

Spec == Init /\ [][Next]_vars

-----------------------------------------------------------------------------
(* SpecFind: direct calls of find_toolchain_path, with every host tag on every
   host, against an NDK whose compiler files are removed one after the other *)

FindRemovable ==
    { Join(ToolchainDir(NdkA, t), tool) : t \in MainTags,
      tool \in {<<"bin", "clang">>, <<"bin", "clang++">>, <<"bin", "clang.exe">>,
                <<"bin", "clang++.exe">>} }
    \cup { ToolchainDir(NdkA, "windows-x86_64") }

InitFind ==
    /\ now = StartTime
    /\ fs = NdkTree(NdkA, MainTags, TRUE)
    /\ source_properties = [n \in {NdkA} |-> ShippedProperties]
    /\ tempdirs = UsableTempdirs
    /\ cache_file = NoFile
    /\ call = NoCall
    /\ seen = NoSeen
    /\ calls = 0
    /\ procs = IdleProcs

NextFind ==
    \/ Find({NdkA}, MainHosts, MainTags, BOOLEAN, TRUE)
    \/ Resolve({NdkA}, MainHosts, {FALSE}, FALSE, FALSE)
    \/ Remove(FindRemovable)

SpecFind == InitFind /\ [][NextFind]_vars

-----------------------------------------------------------------------------
(* SpecNdk: resolutions and host-tag queries on every host, against an NDK
   whose required components are removed one after the other *)

NdkInputs == {NdkA, <<"ndkB">>, <<"plainfile">>, EmptyPath}

NdkRemovable ==
    { NdkA, Join(NdkA, PrebuiltRel), Join(NdkA, <<"build", "cmake">>),
      Join(NdkA, <<"sources">>), Join(NdkA, <<"prebuilt", "windows-x86_64">>) }

InitNdk ==
    /\ now = StartTime
    /\ fs = NdkTree(NdkA, {"linux-x86_64", "windows-x86_64", "windows"}, TRUE)
            \cup {<<"plainfile">>}
    /\ source_properties = [n \in {NdkA} |-> ShippedProperties]
    /\ tempdirs \in {UsableTempdirs, <<FALSE, FALSE>>}
    /\ cache_file = NoFile
    /\ call = NoCall
    /\ seen = NoSeen
    /\ calls = 0
    /\ procs = IdleProcs

NextNdk ==
    \/ Resolve(NdkInputs, CoreHosts, BOOLEAN, FALSE, FALSE)
    \/ HostTagQuery({NdkA}, AllHosts)
    \/ Remove(NdkRemovable)

SpecNdk == InitNdk /\ [][NextNdk]_vars

-----------------------------------------------------------------------------
(* SpecEvict: resolutions of many (NDK, host tag) pairs with the cache
   enabled, starting from a store that earlier resolutions have filled with
   nine entries *)

EvictNdks == {NdkA, <<"ndkB">>, <<"ndkC">>}

\* the NDK resolved during the run (the others were resolved before it)
EvictInputs == {<<"ndkC">>}

EvictHosts == { Host("Linux", "x86_64"), Host("Linux", "aarch64"),
                Host("Darwin", "x86_64"), Host("Darwin", "arm64") }

EvictTags == {"linux-x86_64", "linux-aarch64", "darwin-x86_64", "darwin-arm64"}

\* the keys resolved before the run starts, in the order of their first resolution
FilledKeys ==
    << <<NdkA, "linux-x86_64">>, <<NdkA, "linux-aarch64">>,
       <<NdkA, "darwin-x86_64">>, <<NdkA, "darwin-arm64">>,
       <<<<"ndkB">>, "linux-x86_64">>, <<<<"ndkB">>, "linux-aarch64">>,
       <<<<"ndkB">>, "darwin-x86_64">>, <<<<"ndkB">>, "darwin-arm64">>,
       <<<<"ndkC">>, "linux-x86_64">> >>

\* the store after those resolutions, entry i written at time stamps[i]
FilledStore(files, props, stamps) ==
    [i \in 1..Len(FilledKeys) |->
        NewEntry(files, props, FilledKeys[i][1], FilledKeys[i][2],
                 ToolchainDir(FilledKeys[i][1], FilledKeys[i][2]), stamps[i])]

\* the times of those resolutions: one after the other; all within one second;
\* or the first key resolved again (its entry had expired) after all the others
FilledStamps ==
    { [i \in 1..Len(FilledKeys) |-> StartTime - 10 + i],
      [i \in 1..Len(FilledKeys) |-> StartTime - 1],
      [i \in 1..Len(FilledKeys) |->
          IF i = 1 THEN StartTime - 1 ELSE StartTime - CacheTtl - 10 + i] }

EvictFs == UNION { NdkTree(n, EvictTags, TRUE) : n \in EvictNdks }

\* the NDKs differ in their source.properties
EvictProperties ==
    [n \in EvictNdks |->
        IF n = NdkA THEN ShippedProperties ELSE BareProperties]

InitEvict ==
    /\ now = StartTime
    /\ fs = EvictFs
    /\ source_properties = EvictProperties
    /\ tempdirs = UsableTempdirs
    /\ \E stamps \in FilledStamps :
           cache_file = [NoFile EXCEPT
                            !.exists = TRUE,
                            !.entries = FilledStore(EvictFs, EvictProperties, stamps)]
    /\ call = NoCall
    /\ seen = NoSeen
    /\ calls = 0
    /\ procs = IdleProcs

NextEvict ==
    \/ Resolve(EvictInputs, EvictHosts, {TRUE}, FALSE, TRUE)
    \/ Tick

SpecEvict == InitEvict /\ [][NextEvict]_vars

-----------------------------------------------------------------------------
(* SpecConc: invocations that run at the same time and share the cache file.
   An invocation is a sequence of steps; between its steps the others run.
   Its reads take the file as it is at that moment; open(..., 'w') empties the
   file; the bytes of json.dump reach the file when it is closed. *)

ConcHosts == { Host("Linux", "x86_64"), Host("Windows", "AMD64") }

Finished == {"done", "failed", "crashed"}

SetProc(p, pc, host, data, stdout) ==
    procs' = [procs EXCEPT ![p] = [pc |-> pc, host |-> host, data |-> data,
                                   stdout |-> stdout]]

\* main() up to the cache write: validation, host tag, cache lookup, discovery
Start(p) ==
    /\ procs[p].pc = "idle"
    /\ \E host \in ConcHosts :
         LET host_tag       == get_host_tag(fs, host, NdkA)
             cached         == get_cached_toolchain_path(fs, cache_file, TRUE, NdkA,
                                                         host_tag, now)
             toolchain_path == ToolchainDir(NdkA, host_tag)
             complete       ==
                 /\ Exists(fs, toolchain_path)
                 /\ \A tool \in RequiredTools(host.platform) :
                        Exists(fs, Join(toolchain_path, tool))
         IN  IF gettempdir(tempdirs) = 0 THEN SetProc(p, "crashed", host, <<>>, None)
             ELSE IF ~validate_ndk_directory(fs, NdkA) \/ host_tag = NoTag
             THEN SetProc(p, "failed", host, <<>>, None)
             ELSE IF cached.raised THEN SetProc(p, "crashed", host, <<>>, None)
             ELSE IF Truthy(cached.path)
                  THEN SetProc(p, "done", host, <<>>, cached.path)
             ELSE IF ~complete THEN SetProc(p, "failed", host, <<>>, None)
             ELSE SetProc(p, "found", host, <<>>, None)
    /\ UNCHANGED <<now, fs, source_properties, tempdirs, cache_file, call, seen, calls>>

\* cache_toolchain_path: read the store and build the new one in memory
PutRead(p) ==
    /\ procs[p].pc = "found"
    /\ LET host     == procs[p].host
           host_tag == get_host_tag(fs, host, NdkA)
           error    == IF LoadError(cache_file) # "none" THEN LoadError(cache_file)
                       ELSE IF cache_file.exists /\ cache_file.kind # "object"
                       THEN "TypeError"
                       ELSE "none"
           old      == IF cache_file.exists THEN cache_file.entries ELSE <<>>
           data     == TrimEntries(SetEntry(old,
                           NewEntry(fs, source_properties, NdkA, host_tag,
                                    ToolchainDir(NdkA, host_tag), now)))
       IN  IF error = "none" THEN SetProc(p, "loaded", host, data, None)
           ELSE IF WriteHandlerCatches(error)
           THEN SetProc(p, "done", host, <<>>, ToolchainDir(NdkA, host_tag))
           ELSE SetProc(p, "crashed", host, <<>>, None)
    /\ UNCHANGED <<now, fs, source_properties, tempdirs, cache_file, call, seen, calls>>

\* cache_toolchain_path: open(self.cache_file, 'w') empties the file
PutOpen(p) ==
    /\ procs[p].pc = "loaded"
    /\ IF cache_file.writable
       THEN /\ cache_file' = [cache_file EXCEPT !.exists = TRUE, !.kind = "empty",
                                                !.entries = <<>>, !.items = <<>>]
            /\ SetProc(p, "opened", procs[p].host, procs[p].data, None)
       ELSE /\ UNCHANGED cache_file
            /\ SetProc(p, IF WriteHandlerCatches("OSError") THEN "done" ELSE "crashed",
                       procs[p].host, <<>>, None)
    /\ UNCHANGED <<now, fs, source_properties, tempdirs, call, seen, calls>>

\* cache_toolchain_path: json.dump and close put the bytes at the start of the
\* file.  Over bytes another invocation wrote meanwhile, the result is this
\* store (the other's bytes were no longer) or the other's tail after it (not
\* JSON).  Then main prints the path.
PutDump(p) ==
    /\ procs[p].pc = "opened"
    /\ LET mine == [cache_file EXCEPT !.kind = "object", !.entries = procs[p].data]
           torn == [cache_file EXCEPT !.kind = "garbage", !.entries = <<>>]
       IN  cache_file' \in IF cache_file.kind = "empty" THEN {mine} ELSE {mine, torn}
    /\ SetProc(p, "done", procs[p].host, <<>>,
               ToolchainDir(NdkA, get_host_tag(fs, procs[p].host, NdkA)))
    /\ UNCHANGED <<now, fs, source_properties, tempdirs, call, seen, calls>>

\* the store an earlier resolution on the Linux host left, one second ago
ConcStore(props) ==
    LET files == NdkTree(NdkA, {"linux-x86_64", "windows-x86_64"}, TRUE)
    IN  [NoFile EXCEPT !.exists = TRUE,
                       !.entries = <<NewEntry(files, props, NdkA, "linux-x86_64",
                                              ToolchainDir(NdkA, "linux-x86_64"),
                                              StartTime - 1)>>]

InitConc ==
    /\ now = StartTime
    /\ fs = NdkTree(NdkA, {"linux-x86_64", "windows-x86_64"}, TRUE)
    /\ source_properties \in [{NdkA} -> PropertiesContents]
    /\ tempdirs = UsableTempdirs
    /\ cache_file \in {NoFile, ConcStore(source_properties)}
    /\ call = NoCall
    /\ seen = NoSeen
    /\ calls = 0
    /\ procs = IdleProcs

NextConc ==
    \E p \in 1..NumProcs :
        \/ Start(p)
        \/ PutRead(p)
        \/ PutOpen(p)
        \/ PutDump(p)

SpecConc == InitConc /\ [][NextConc]_vars

-----------------------------------------------------------------------------
(* Properties of the resolutions.  In an action formula the unprimed variables
   are the state the call found and call' is the call that was made. *)

IsMainCall(c) == c.op = "main"

\* the call ran find_toolchain_path, from main() or directly
ReachedFind(c) == c.op \in {"main", "find"} /\ c.looked_up

\* the call reached find_toolchain_path and the cache did not answer it
MissedCache(c) == c.looked_up /\ ~c.hit /\ ~(c.raised /\ ~c.put)

\* the entries of the persisted store that carry the key
StoredEntries(cf, ndk_dir, host_tag) ==
    IF cf.exists /\ cf.readable /\ cf.kind = "object"
    THEN { cf.entries[i] : i \in { j \in 1..Len(cf.entries) :
                                   cf.entries[j].key = CacheKey(ndk_dir, host_tag) } }
    ELSE {}

\* the cache file is in one of the failure conditions: a dangling link,
\* unreadable, read-only, not JSON, JSON of another shape, or holding an entry
\* without 'path'
CacheFaulty(cf) ==
    \/ ~cf.readable
    \/ ~cf.writable
    \/ cf.exists /\ cf.kind # "object"
    \/ \E i \in 1..Len(cf.entries) : cf.entries[i].path = None

\* C1 (as claimed): with caching enabled, whatever the condition of the cache
\* file, a resolution ends normally with the exit code and the path it would
\* have had with an empty cache.
C1_CacheFailureIsHarmless ==
    [][ (IsMainCall(call') /\ call'.cache_enabled /\ CacheFaulty(cache_file))
        => LET clean == main(fs, source_properties, tempdirs, NoFile, TRUE,
                             call'.host, call'.ndk_dir, now)
           IN  /\ ~call'.raised
               /\ call'.exit_code = clean.exit_code
               /\ call'.stdout = clean.stdout ]_vars

\* C2 (as claimed): after a successful resolution with caching enabled, a later
\* one with the same (ndk_dir, host_tag), less than 86400 s after it, with the
\* toolchain directory in place and the cache file unchanged, is answered from
\* the cache: same path, no check of the compiler executables.
C2_RoundTripSinceCall ==
    [][ ( /\ ReachedFind(call') /\ call'.cache_enabled
          /\ seen.active
          /\ call'.ndk_dir = seen.ndk_dir /\ call'.host_tag = seen.host_tag
          /\ now - seen.at < CacheTtl
          /\ Exists(fs, seen.path) )
        => ( /\ call'.hit /\ call'.required = {}
             /\ call'.path = seen.path /\ ~call'.raised ) ]_vars

\* C2 (amended): the same, with the 86400 s counted from the timestamp of the
\* cache entry that the earlier resolution wrote or was answered from.
C2_RoundTripSinceEntry ==
    [][ ( /\ ReachedFind(call') /\ call'.cache_enabled
          /\ seen.active
          /\ call'.ndk_dir = seen.ndk_dir /\ call'.host_tag = seen.host_tag
          /\ now - seen.stamp < CacheTtl
          /\ Exists(fs, seen.path) )
        => ( /\ call'.hit /\ call'.required = {}
             /\ call'.path = seen.path /\ ~call'.raised ) ]_vars

\* C2 witness: a resolution answered from the cache after an earlier successful
\* one, at a later time, with bin/clang and bin/clang++ removed meanwhile.
C2_Witness ==
    /\ ReachedFind(call) /\ call.hit /\ ~call.raised
    /\ seen.active /\ call.ndk_dir = seen.ndk_dir /\ call.host_tag = seen.host_tag
    /\ seen.at < now /\ call.path = seen.path
    /\ \A tool \in ShippedTools(call.host_tag) : ~Exists(fs, Join(seen.path, tool))

\* C4: with caching enabled, the lookup answers with the stored path exactly
\* when the store has an entry for the key, younger than 86400 s, whose path
\* exists; and a lookup that misses leaves the store as it was (it stays so
\* when the resolution then fails, the stale entry included).
C4_CacheExpiration ==
    [][ (ReachedFind(call') /\ call'.cache_enabled)
        => LET stored == StoredEntries(cache_file, call'.ndk_dir, call'.host_tag)
               valid  == { e \in stored : /\ now - e.timestamp < 86400
                                          /\ e.path # None
                                          /\ e.path \in fs }
           IN  /\ call'.hit <=> valid # {}
               /\ call'.hit => \E e \in valid : call'.path = e.path
               /\ (~call'.hit /\ ~call'.put) => cache_file' = cache_file ]_vars

\* C4 witness: an entry aged 86400 s or more, whose path still exists, was a
\* miss, the resolution then failed, and the stale entry is still stored.
C4_Witness ==
    /\ ReachedFind(call) /\ call.cache_enabled /\ MissedCache(call)
    /\ call.path = None /\ ~call.raised
    /\ \E e \in StoredEntries(cache_file, call.ndk_dir, call.host_tag) :
           /\ now - e.timestamp >= CacheTtl
           /\ e.path # None /\ Exists(fs, e.path)

\* C5: with the cache disabled the lookup never answers and nothing is
\* persisted: the cache file is left as it was, whatever it holds (and no
\* exception is raised but the constructor's, when there is no temporary
\* directory).
C5_DisabledCacheUntouched ==
    [][ (call'.op \in {"main", "find"} /\ ~call'.cache_enabled)
        => ( /\ cache_file' = cache_file
             /\ ~call'.hit
             /\ call'.raised => gettempdir(tempdirs) = 0
             /\ (call'.path # None => call'.required # {}) ) ]_vars

\* C5 witness: a successful resolution with the cache disabled, made while the
\* store held a fresh entry for its key, that checked the executables itself.
C5_Witness ==
    /\ IsMainCall(call) /\ ~call.cache_enabled /\ call.exit_code = 0
    /\ call.required # {}
    /\ \E e \in StoredEntries(cache_file, call.ndk_dir, call.host_tag) :
           now - e.timestamp < CacheTtl /\ e.path = call.stdout

\* the NDK at ndk_dir is well formed and holds the toolchain the NDK ships for
\* the host tag
WellFormedNdk(files, ndk_dir, host_tag) ==
    /\ IsDir(files, ndk_dir)
    /\ \A req_path \in RequiredPaths : Exists(files, Join(ndk_dir, req_path))
    /\ \A tool \in ShippedTools(host_tag) :
           Exists(files, Join(ToolchainDir(ndk_dir, host_tag), tool))

\* C8 (as claimed): on a well-formed NDK with a valid toolchain for the
\* resolved host tag, every resolution returns
\* <ndk_root>/toolchains/llvm/prebuilt/<host_tag>, a strict descendant of the
\* NDK root that ends in the host tag.
C8_LocateReturnsToolchainDir ==
    [][ ( /\ IsMainCall(call') /\ call'.host_tag # NoTag
          /\ WellFormedNdk(fs, call'.ndk_dir, call'.host_tag) )
        => ( /\ call'.exit_code = 0
             /\ call'.stdout = Join(call'.ndk_dir, PrebuiltRel \o <<call'.host_tag>>)
             /\ IsStrictDescendant(call'.stdout, call'.ndk_dir)
             /\ call'.stdout[Len(call'.stdout)] = call'.host_tag ) ]_vars

\* C9 (as claimed): on a cache miss with the candidate directory present, the
\* executables required are clang.exe and clang++.exe for the host tags
\* windows-x86_64 and windows, clang and clang++ for the others; the call
\* fails if one of them is missing.
C9_RequiredToolsByHostTag ==
    [][ ( /\ ReachedFind(call') /\ MissedCache(call')
          /\ Exists(fs, ToolchainDir(call'.ndk_dir, call'.host_tag)) )
        => LET wanted == IF call'.host_tag \in {"windows-x86_64", "windows"}
                         THEN {<<"bin", "clang.exe">>, <<"bin", "clang++.exe">>}
                         ELSE {<<"bin", "clang">>, <<"bin", "clang++">>}
               dir    == ToolchainDir(call'.ndk_dir, call'.host_tag)
           IN  /\ call'.required = wanted
               /\ (\E tool \in wanted : ~Exists(fs, Join(dir, tool)))
                      => call'.path = None ]_vars

-----------------------------------------------------------------------------
(* Properties checked under SpecEvict and SpecNdk *)

KeysOf(entries) == { entries[i].key : i \in 1..Len(entries) }

EntrySet(entries) == { entries[i] : i \in 1..Len(entries) }

\* C3: after every completed cache write the store holds at most 10 entries;
\* when it held 10 and an 11th key is inserted, exactly 10 remain: one entry
\* of the smallest timestamp is gone, the others and the new one are kept.
C3_EvictionKeepsTenNewest ==
    [][ (IsMainCall(call') /\ call'.cache_enabled /\ call'.put /\ ~call'.raised)
        => LET before == cache_file.entries
               after  == cache_file'.entries
               key    == CacheKey(call'.ndk_dir, call'.host_tag)
           IN  /\ Len(after) <= 10
               /\ Cardinality(KeysOf(after)) = Len(after)
               /\ (Len(before) = 10 /\ key \notin KeysOf(before))
                  => /\ Len(after) = 10
                     /\ key \in KeysOf(after)
                     /\ \E victim \in EntrySet(before) :
                          /\ victim.key \notin KeysOf(after)
                          /\ \A e \in EntrySet(before) :
                                 victim.timestamp <= e.timestamp
                          /\ EntrySet(after) \ EntrySet(before)
                                = { e \in EntrySet(after) : e.key = key }
                          /\ EntrySet(before) \ EntrySet(after) = {victim} ]_vars

\* C3 witness: an 11th key has just been inserted into a store of 10 whose
\* first entry was not the oldest, and 10 entries remain.
C3_Witness ==
    /\ IsMainCall(call) /\ call.put /\ ~call.raised /\ calls >= 2
    /\ Len(cache_file.entries) = 10
    /\ CacheKey(NdkA, "linux-x86_64") \in KeysOf(cache_file.entries)
    /\ CacheKey(NdkA, "linux-aarch64") \notin KeysOf(cache_file.entries)
    /\ cache_file.entries[Len(cache_file.entries)].key
           = CacheKey(call.ndk_dir, call.host_tag)

\* the names platform.system() gives the systems of the policy table
LinuxNames == {"Linux"}
MacNames == {"Darwin"}
WindowsNames == {"Windows", "CYGWIN_NT-10.0-19045", "MSYS_NT-10.0-19045"}
X86Names == {"x86_64", "AMD64", "amd64"}
ArmNames == {"aarch64", "arm64", "ARM64"}

\* the host tag the policy table gives

PolicyTag(files, host, ndk_dir) ==
    IF host.system \in LinuxNames /\ host.machine \in X86Names THEN "linux-x86_64"
    ELSE IF host.system \in LinuxNames /\ host.machine \in ArmNames THEN "linux-aarch64"
    ELSE IF host.system \in MacNames /\ host.machine \in X86Names THEN "darwin-x86_64"
    ELSE IF host.system \in MacNames /\ host.machine \in ArmNames THEN "darwin-arm64"
    ELSE IF host.system \in WindowsNames
    THEN IF /\ Truthy(ndk_dir)
            /\ Join(ndk_dir, <<"prebuilt", "windows-x86_64">>) \notin files
         THEN "windows"
         ELSE "windows-x86_64"
    ELSE NoTag

\* C6 (as claimed): the host tag is the one of the policy table for every (OS,
\* architecture) pair, Windows and the Cygwin-like systems giving
\* windows-x86_64, or the legacy tag windows exactly when ndk_root is given and
\* <ndk_root>/prebuilt/windows-x86_64 does not exist; every other pair gives no
\* tag, and the resolution fails.
C6_HostTagPolicy ==
    [][ ( \/ call'.op = "get_host_tag"
          \/ IsMainCall(call') /\ call'.valid )
        => ( /\ call'.host_tag = PolicyTag(fs, call'.host, call'.ndk_dir)
             /\ (IsMainCall(call') /\ call'.host_tag = NoTag)
                    => (call'.exit_code = 1 /\ ~call'.looked_up) ) ]_vars

\* C7: when the NDK root is no directory or one of toolchains/llvm/prebuilt,
\* build/cmake, sources is missing, the resolution exits with status 1 and
\* prints nothing, without host-tag detection, cache lookup, toolchain
\* discovery or a cache write (and with no exception but the constructor's,
\* when there is no temporary directory).
C7_InvalidNdkFailsEarly ==
    [][ ( /\ IsMainCall(call')
          /\ \/ ~IsDir(fs, call'.ndk_dir)
             \/ Join(call'.ndk_dir, <<"toolchains", "llvm", "prebuilt">>) \notin fs
             \/ Join(call'.ndk_dir, <<"build", "cmake">>) \notin fs
             \/ Join(call'.ndk_dir, <<"sources">>) \notin fs )
        => ( /\ ~call'.valid
             /\ call'.exit_code = 1 /\ call'.stdout = None
             /\ call'.raised => gettempdir(tempdirs) = 0
             /\ call'.host_tag = NoTag /\ ~call'.looked_up /\ ~call'.hit
             /\ call'.required = {} /\ ~call'.put
             /\ cache_file' = cache_file ) ]_vars

\* C7 witness: a resolution failed on an NDK that lacks only sources/, while
\* the store held a fresh entry, with an existing path, for that NDK.
C7_Witness ==
    /\ IsMainCall(call) /\ call.cache_enabled /\ ~call.valid /\ call.exit_code = 1
    /\ IsDir(fs, call.ndk_dir)
    /\ ~Exists(fs, Join(call.ndk_dir, <<"sources">>))
    /\ Exists(fs, Join(call.ndk_dir, PrebuiltRel))
    /\ Exists(fs, Join(call.ndk_dir, <<"build", "cmake">>))
    /\ \E e \in EntrySet(cache_file.entries) :
           /\ e.key = CacheKey(call.ndk_dir, get_host_tag(fs, call.host, call.ndk_dir))
           /\ now - e.timestamp < CacheTtl /\ Exists(fs, e.path)

-----------------------------------------------------------------------------
(* Property checked under SpecConc *)

\* C10 (as claimed): under every interleaving of concurrent invocations on a
\* valid NDK, every invocation that has ended has printed the right toolchain
\* path and exited with status 0; at worst a cache update is lost.
C10_ConcurrentRunsAllSucceed ==
    \A p \in 1..NumProcs :
        procs[p].pc \in Finished
        => /\ procs[p].pc = "done"
           /\ procs[p].stdout
                  = ToolchainDir(NdkA, get_host_tag(fs, procs[p].host, NdkA))

====
